---- MODULE Spec2Model ----
(***************************************************************************)
(* Shopping-list backend (backend/main.go): the HTTP handlers, the item    *)
(* repository functions and the items table they talk to through DBPool.   *)
(*                                                                         *)
(* Strings are sequences of one-character strings.  Error values are       *)
(* sequences of words, so that strings.Contains is a real search.          *)
(* An optional value (a nullable column) is a sequence of length 0 or 1.   *)
(***************************************************************************)
EXTENDS Integers, Sequences, FiniteSets, TLC

(***************************************************************************)
(* Bounds of the model.                                                    *)
(***************************************************************************)
\* largest value the items_id_seq sequence hands out before nextval fails
SeqMax == 2

(***************************************************************************)
(* Program constants.                                                      *)
(***************************************************************************)
\* http.MaxBytesReader(w, r.Body, 1024*1024)
MaxBodyBytes == 1048576
StatusOK == 200
StatusCreated == 201
StatusNoContent == 204
StatusBadRequest == 400
StatusNotFound == 404
StatusMethodNotAllowed == 405
StatusRequestEntityTooLarge == 413
StatusInternalServerError == 500
StatusServiceUnavailable == 503

(***************************************************************************)
(* strings / strconv helpers, as the handlers use them.                    *)
(***************************************************************************)
\* unicode.IsSpace, over the characters the model's strings are built from
IsSpace(c) == c \in {" ", "\t"}

RECURSIVE TrimLeftSpace(_)
TrimLeftSpace(s) ==
    IF s = <<>> THEN s
    ELSE IF IsSpace(Head(s)) THEN TrimLeftSpace(Tail(s)) ELSE s

RECURSIVE TrimRightSpace(_)
TrimRightSpace(s) ==
    IF s = <<>> THEN s
    ELSE IF IsSpace(s[Len(s)]) THEN TrimRightSpace(SubSeq(s, 1, Len(s) - 1)) ELSE s

\* strings.TrimSpace
TrimSpace(s) == TrimRightSpace(TrimLeftSpace(s))

\* strings.TrimSuffix(s, "/")
TrimSuffixSlash(s) ==
    IF s # <<>> /\ s[Len(s)] = "/" THEN SubSeq(s, 1, Len(s) - 1) ELSE s

\* strings.Split(s, "/"): the segments between the separators, empty ones kept
RECURSIVE SplitFrom(_, _, _)
SplitFrom(s, i, cur) ==
    IF i > Len(s) THEN <<cur>>
    ELSE IF s[i] = "/" THEN <<cur>> \o SplitFrom(s, i + 1, <<>>)
    ELSE SplitFrom(s, i + 1, Append(cur, s[i]))

SplitSlash(s) == SplitFrom(s, 1, <<>>)

Digits == <<"0", "1", "2", "3", "4", "5", "6", "7", "8", "9">>

IsDigit(c) == \E d \in 1..10 : Digits[d] = c

DigitVal(c) == (CHOOSE d \in 1..10 : Digits[d] = c) - 1

RECURSIVE DigitsVal(_, _)
DigitsVal(s, acc) ==
    IF s = <<>> THEN acc ELSE DigitsVal(Tail(s), acc * 10 + DigitVal(Head(s)))

\* strconv.Atoi: an optional sign, then one or more decimal digits (the paths
\* of the model are short, so the range error of Atoi is never met)
Atoi(s) ==
    LET signed == s # <<>> /\ s[1] \in {"+", "-"}
        ds == IF signed THEN Tail(s) ELSE s
    IN  IF ds = <<>> \/ \E i \in 1..Len(ds) : ~IsDigit(ds[i])
        THEN [ok |-> FALSE, val |-> 0]
        ELSE [ok |-> TRUE,
              val |-> IF signed /\ s[1] = "-" THEN 0 - DigitsVal(ds, 0)
                      ELSE DigitsVal(ds, 0)]

\* strconv.Itoa for n >= 0 (the %d of the error texts, and the request paths)
RECURSIVE Itoa(_)
Itoa(n) ==
    IF n < 10 THEN <<Digits[n + 1]>>
    ELSE Itoa(n \div 10) \o <<Digits[(n % 10) + 1]>>

\* strings.Contains on word sequences: phrase occurs contiguously in text
Contains(text, phrase) ==
    \E i \in 0..(Len(text) - Len(phrase)) :
        \A j \in 1..Len(phrase) : text[i + j] = phrase[j]

(***************************************************************************)
(* Values of the program.                                                  *)
(***************************************************************************)
\* Item{}: the zero value of the struct (time.Time{} is instant 0; the
\* storage clock starts at 1)
ZeroItem == [ID |-> 0, Name |-> <<>>, Quantity |-> <<>>, CreatedAt |-> 0]

\* a Go error value: nil, or a kind (the dynamic type errors.As sees) and a text
NilErr == [kind |-> "nil", text |-> <<>>]

\* a Go slice of Item: nil, or a (possibly empty) array
NilSlice == [isNil |-> TRUE, elems |-> <<>>]
EmptySlice == [isNil |-> FALSE, elems |-> <<>>]

\* the body of a response: the text http.Error writes, or encoded JSON
NoJSON == [t |-> "none", elems |-> <<>>]

\* json.NewEncoder(w).Encode(items): a nil slice encodes as null
EncodeSlice(sl) ==
    IF sl.isNil THEN [t |-> "null", elems |-> <<>>]
    ELSE [t |-> "array", elems |-> sl.elems]

\* json.NewEncoder(w).Encode(addedItem)
EncodeItem(it) == [t |-> "object", elems |-> <<it>>]

\* http.Error(w, msg, code)
HttpError(msg, code) == [status |-> code, text |-> msg, json |-> NoJSON]

NoResp == [status |-> 0, text |-> <<>>, json |-> NoJSON]

(***************************************************************************)
(* The request body and encoding/json's strict decoding of it.             *)
(*                                                                         *)
(* A body is described by what the decoder's scanner meets in it:          *)
(*   size   its length in bytes                                            *)
(*   first  "value": a complete JSON value ends at byte `at`;              *)
(*          "syntax": the byte at offset `at` is a syntax error;           *)
(*          "none": the bytes end before either (at = 0)                   *)
(*   blank  the body holds only white space                                *)
(*   top    the kind of the value: "object", "null" or "other"             *)
(*   fields the members of the object, in document order                   *)
(* A member value is [t |-> "str" | "num" | "null", s |-> chars, n |-> int]*)
(***************************************************************************)
JStr(s) == [t |-> "str", s |-> s, n |-> 0]
JNum(n) == [t |-> "num", s |-> <<>>, n |-> n]
JNull == [t |-> "null", s |-> <<>>, n |-> 0]

DecErr(kind, field, offset) == [kind |-> kind, field |-> field, offset |-> offset]
NoDecErr == DecErr("nil", "", 0)

\* Decoder.readValue over http.MaxBytesReader: the buffer read so far is scanned
\* before the error of the read is looked at
ReadValue(b) ==
    IF b.first = "syntax" /\ b.at <= MaxBodyBytes THEN DecErr("SyntaxError", "", b.at)
    ELSE IF b.first = "value" /\ b.at <= MaxBodyBytes THEN NoDecErr
    ELSE IF b.size > MaxBodyBytes THEN DecErr("MaxBytesError", "", 0)
    ELSE IF b.blank THEN DecErr("EOF", "", 0)
    ELSE DecErr("ErrUnexpectedEOF", "", 0)

\* time.Time.UnmarshalJSON on a JSON string: the model's RFC 3339 texts are
\* "T" followed by one digit, the digit being the instant
ParseTime(s) ==
    IF Len(s) = 2 /\ s[1] = "T" /\ IsDigit(s[2])
    THEN [ok |-> TRUE, t |-> DigitVal(s[2])]
    ELSE [ok |-> FALSE, t |-> 0]

ItemKeys == {"id", "name", "quantity", "created_at"}

\* faulty variant: the decoder is left lenient
AllowUnknownFields == FALSE

\* dec.DisallowUnknownFields()
DisallowUnknownFields == TRUE

\* decodeState.object with DisallowUnknownFields: members in order; the first
\* saved error (unknown field, UnmarshalTypeError) is returned at the end, an
\* Unmarshaler's own error (time.Time) is returned at once
RECURSIVE UnmarshalFields(_, _, _, _)
UnmarshalFields(fields, i, it, saved) ==
    IF i > Len(fields) THEN [item |-> it, err |-> saved]
    ELSE
      LET k == fields[i].key
          v == fields[i].val
          save(e) == IF saved.kind = "nil" THEN e ELSE saved
      IN  IF k \notin ItemKeys
          THEN UnmarshalFields(fields, i + 1, it,
                               IF DisallowUnknownFields
                               THEN save(DecErr("unknown field", k, 0)) ELSE saved)
          ELSE IF v.t = "null"
          THEN UnmarshalFields(fields, i + 1, it, saved)
          ELSE IF k = "created_at"
          THEN IF v.t = "str" /\ ParseTime(v.s).ok
               THEN UnmarshalFields(fields, i + 1,
                                    [it EXCEPT !.CreatedAt = ParseTime(v.s).t], saved)
               ELSE [item |-> it, err |-> DecErr("ParseError", k, 0)]
          ELSE IF k = "id"
          THEN IF v.t = "num"
               THEN UnmarshalFields(fields, i + 1, [it EXCEPT !.ID = v.n], saved)
               ELSE UnmarshalFields(fields, i + 1, it,
                                    save(DecErr("UnmarshalTypeError", k, i)))
          ELSE IF v.t = "str"
          THEN UnmarshalFields(fields, i + 1,
                               IF k = "name" THEN [it EXCEPT !.Name = v.s]
                               ELSE [it EXCEPT !.Quantity = v.s], saved)
          ELSE UnmarshalFields(fields, i + 1, it,
                               save(DecErr("UnmarshalTypeError", k, i)))

\* dec.Decode(&newItem)
Decode(b) ==
    LET rv == ReadValue(b)
    IN  IF rv.kind # "nil" THEN [item |-> ZeroItem, err |-> rv]
        ELSE IF b.top = "null" THEN [item |-> ZeroItem, err |-> NoDecErr]
        ELSE IF b.top # "object"
        THEN [item |-> ZeroItem, err |-> DecErr("UnmarshalTypeError", "", b.at)]
        ELSE UnmarshalFields(b.fields, 1, ZeroItem, NoDecErr)

(***************************************************************************)
(* Go error values of the repository: nil, pgx.ErrNoRows, another storage  *)
(* error, or an error made by fmt.Errorf.  The text is a word sequence.    *)
(***************************************************************************)
Errorf(text) == [kind |-> "error", text |-> text]

\* fmt.Errorf("<prefix>: %w", err)
Wrap(prefix, err) == [kind |-> "error", text |-> prefix \o err.text]

DbError(text) == [kind |-> "db", text |-> text]

\* errors a failing storage call may carry
ConnRefused == DbError(<<"connection", "refused">>)
HostNotFound == DbError(<<"host", "not", "found">>)
ValueCannotBeEmpty == DbError(<<"value", "cannot", "be", "empty">>)
StorageErrors == {ConnRefused, HostNotFound, ValueCannotBeEmpty}

ErrNoRows == [kind |-> "ErrNoRows", text |-> <<"no", "rows", "in", "result", "set">>]

\* what a repository function hands back to its handler
Ret(items, item, err) == [items |-> items, item |-> item, err |-> err]
NoRet == Ret(NilSlice, ZeroItem, NilErr)

(***************************************************************************)
(* The items table (createSchemaIfNotExists) and its statements.           *)
(* A row is [id, name, quantity, created_at]; created_at is nullable:      *)
(* <<>> is NULL, <<t>> the instant t.                                      *)
(***************************************************************************)
Row(id, name, quantity, created) ==
    [id |-> id, name |-> name, quantity |-> quantity, created_at |-> created]

\* CHECK (name <> ''), CHECK (quantity <> '')
CheckConstraints(name, quantity) == name # <<>> /\ quantity # <<>>

\* faulty variant: the sequence hands out its current value again
NextValNoAdvance(sq) == [ok |-> TRUE, val |-> IF sq = 0 THEN 1 ELSE sq]

\* nextval('items_id_seq') of the SERIAL column: the next value, never one
\* handed out before; it fails when the sequence is exhausted
NextVal(sq) == [ok |-> sq < SeqMax, val |-> sq + 1]

\* faulty variant: the id is the smallest positive integer no stored row has
InsertStmtLowestFree(tbl, sq, now, name, quantity) ==
    LET free == {i \in 1..SeqMax : ~\E r \in tbl : r.id = i}
        id == IF free = {} THEN SeqMax + 1
              ELSE CHOOSE i \in free : \A j \in free : i <= j
        row == Row(id, name, quantity, <<now>>)
    IN  IF free = {} \/ ~CheckConstraints(name, quantity)
        THEN [ok |-> FALSE, table |-> tbl, seq |-> sq, row |-> row]
        ELSE [ok |-> TRUE, table |-> tbl \cup {row},
              seq |-> IF id > sq THEN id ELSE sq, row |-> row]

\* faulty variant: the id is the row count plus one instead of a sequence value
InsertStmtCountId(tbl, sq, now, name, quantity) ==
    LET id == Cardinality(tbl) + 1
        row == Row(id, name, quantity, <<now>>)
    IN  IF id > SeqMax \/ ~CheckConstraints(name, quantity) \/ \E r \in tbl : r.id = id
        THEN [ok |-> FALSE, table |-> tbl, seq |-> sq, row |-> row]
        ELSE [ok |-> TRUE, table |-> tbl \cup {row}, seq |-> id, row |-> row]

\* INSERT INTO items (name, quantity) VALUES ($1, $2) RETURNING id, created_at
\* executed by the storage at instant now: the new table and sequence, and the
\* row returned (ok = FALSE: the statement failed and no row was stored)
InsertStmt(tbl, sq, now, name, quantity) ==
    LET nv == NextVal(sq)
        row == Row(nv.val, name, quantity, <<now>>)
    IN  IF ~nv.ok THEN [ok |-> FALSE, table |-> tbl, seq |-> sq, row |-> row]
        ELSE IF ~CheckConstraints(name, quantity)
                \/ \E r \in tbl : r.id = nv.val
        THEN [ok |-> FALSE, table |-> tbl, seq |-> nv.val, row |-> row]
        ELSE [ok |-> TRUE, table |-> tbl \cup {row}, seq |-> nv.val, row |-> row]

\* faulty variant: DELETE FROM items WHERE id <= $1
DeleteStmtUpTo(tbl, id) ==
    LET hit == {r \in tbl : r.id <= id}
    IN  [table |-> tbl \ hit, rowsAffected |-> Cardinality(hit)]

\* a database: whether it has the items table, and the table and its sequence
Database(tbl, sq) == [exists |-> TRUE, table |-> tbl, seq |-> sq]
NoTable == [exists |-> FALSE, table |-> {}, seq |-> 0]

\* faulty variant: DROP TABLE IF EXISTS items, then CREATE TABLE items
CreateTableAnew(db) == [ok |-> TRUE, db |-> Database({}, 0)]

\* CREATE TABLE IF NOT EXISTS items (...): an existing table is left alone
CreateTableIfNotExists(db) ==
    [ok |-> TRUE, db |-> IF db.exists THEN db ELSE Database({}, 0)]

\* faulty variant: the row is counted but stays in the table
DeleteStmtSoft(tbl, id) ==
    [table |-> tbl, rowsAffected |-> Cardinality({r \in tbl : r.id = id})]

\* DELETE FROM items WHERE id = $1: the new table and the affected row count
DeleteStmt(tbl, id) ==
    LET hit == {r \in tbl : r.id = id}
    IN  [table |-> tbl \ hit, rowsAffected |-> Cardinality(hit)]

\* faulty variant: ORDER BY created_at ASC, NULL last
AscBefore(r1, r2) ==
    IF r2.created_at = <<>> THEN TRUE
    ELSE IF r1.created_at = <<>> THEN FALSE
    ELSE r1.created_at[1] <= r2.created_at[1]

\* sort key of ORDER BY created_at DESC: NULL sorts first in descending order
DescBefore(r1, r2) ==
    IF r1.created_at = <<>> THEN TRUE
    ELSE IF r2.created_at = <<>> THEN FALSE
    ELSE r1.created_at[1] >= r2.created_at[1]

\* SELECT id, name, quantity, created_at FROM items ORDER BY created_at DESC:
\* every sequence of all the rows that respects the order (ties in any order)
SelectStmt(tbl) ==
    LET n == Cardinality(tbl)
    IN  { s \in [1..n -> tbl] :
            /\ \A i, j \in 1..n : i # j => s[i] # s[j]
            /\ \A i, j \in 1..n : i < j => DescBefore(s[i], s[j]) }

(***************************************************************************)
(* Repository functions.                                                   *)
(***************************************************************************)
\* rows.Scan(&item.ID, &item.Name, &item.Quantity, &item.CreatedAt): a NULL
\* created_at cannot be scanned into a time.Time
Scan(r) ==
    IF r.created_at = <<>> THEN [ok |-> FALSE, item |-> ZeroItem]
    ELSE [ok |-> TRUE,
          item |-> [ID |-> r.id, Name |-> r.name, Quantity |-> r.quantity,
                    CreatedAt |-> r.created_at[1]]]

\* append(items, item): the result is never the nil slice
AppendSlice(items, item) == [isNil |-> FALSE, elems |-> Append(items.elems, item)]

\* the for rows.Next() loop of getItems: a row that fails to scan is skipped
RECURSIVE ScanLoop(_, _)
ScanLoop(rows, items) ==
    IF rows = <<>> THEN items
    ELSE IF ~Scan(Head(rows)).ok THEN ScanLoop(Tail(rows), items)
    ELSE ScanLoop(Tail(rows), AppendSlice(items, Scan(Head(rows)).item))

\* faulty variant: var items []Item
getItemsInitNil == NilSlice

\* items := []Item{}
getItemsInit == EmptySlice

\* faulty variant: rows.Err() is not looked at
getItemsPartial(qerr, rows, iterErr) ==
    IF qerr.kind # "nil"
    THEN IF qerr.kind = "ErrNoRows" THEN Ret(EmptySlice, ZeroItem, NilErr)
         ELSE Ret(NilSlice, ZeroItem, Wrap(<<"database", "query", "error:">>, qerr))
    ELSE Ret(ScanLoop(rows, getItemsInit), ZeroItem, NilErr)

\* getItems, given what dbpool.Query answered: its error, the rows the cursor
\* delivered and the error rows.Err() reports after the loop
getItems(qerr, rows, iterErr) ==
    IF qerr.kind # "nil"
    THEN IF qerr.kind = "ErrNoRows" THEN Ret(EmptySlice, ZeroItem, NilErr)
         ELSE Ret(NilSlice, ZeroItem, Wrap(<<"database", "query", "error:">>, qerr))
    ELSE LET items == ScanLoop(rows, getItemsInit)
         IN  IF iterErr.kind # "nil"
             THEN Ret(NilSlice, ZeroItem,
                      Wrap(<<"database", "iteration", "error:">>, iterErr))
             ELSE Ret(items, ZeroItem, NilErr)

ErrCannotBeEmpty ==
    Errorf(<<"item", "name", "and", "quantity", "cannot", "be", "empty">>)

\* faulty variant: only the name is validated
addItemInvalidNameOnly(newItem) == TrimSpace(newItem.Name) = <<>>

\* faulty variant: the validation without strings.TrimSpace
addItemInvalidUntrimmed(newItem) == newItem.Name = <<>> \/ newItem.Quantity = <<>>

\* the validation at the head of addItem
addItemInvalid(newItem) ==
    TrimSpace(newItem.Name) = <<>> \/ TrimSpace(newItem.Quantity) = <<>>

\* faulty variant: the trimmed strings are bound
addItemArgsTrimmed(newItem) ==
    [name |-> TrimSpace(newItem.Name), quantity |-> TrimSpace(newItem.Quantity)]

\* the parameters addItem binds to the INSERT
addItemArgs(newItem) == [name |-> newItem.Name, quantity |-> newItem.Quantity]

\* faulty variant: the id of the client is kept when it gave one
addItemKeepClientID(newItem, err, insertedID, createdAt) ==
    IF err.kind # "nil"
    THEN Ret(NilSlice, ZeroItem, Wrap(<<"database", "insert", "error:">>, err))
    ELSE Ret(NilSlice,
             [newItem EXCEPT !.ID = IF newItem.ID # 0 THEN newItem.ID ELSE insertedID,
                             !.CreatedAt = createdAt],
             NilErr)

\* the rest of addItem, given what QueryRow(...).Scan answered
addItem(newItem, err, insertedID, createdAt) ==
    IF err.kind # "nil"
    THEN Ret(NilSlice, ZeroItem, Wrap(<<"database", "insert", "error:">>, err))
    ELSE Ret(NilSlice, [newItem EXCEPT !.ID = insertedID, !.CreatedAt = createdAt],
             NilErr)

\* createSchemaIfNotExists on the database db; err is what kept pool.Exec from
\* reaching the storage, if anything did
createSchemaIfNotExists(db, err) ==
    LET st == CreateTableIfNotExists(db)
        prefix == <<"error", "creating", "table", "schema:">>
    IN  IF err.kind # "nil" THEN [db |-> db, err |-> Wrap(prefix, err)]
        ELSE IF ~st.ok
        THEN [db |-> db, err |-> Wrap(prefix, DbError(<<"statement", "failed">>))]
        ELSE [db |-> st.db, err |-> NilErr]

\* faulty variant: no check of cmdTag.RowsAffected()
deleteItemNoCheck(id, err, rowsAffected) ==
    IF err.kind # "nil"
    THEN Ret(NilSlice, ZeroItem, Wrap(<<"database", "delete", "error:">>, err))
    ELSE Ret(NilSlice, ZeroItem, NilErr)

\* deleteItem, given what dbpool.Exec answered
deleteItem(id, err, rowsAffected) ==
    IF err.kind # "nil"
    THEN Ret(NilSlice, ZeroItem, Wrap(<<"database", "delete", "error:">>, err))
    ELSE IF rowsAffected = 0
    THEN Ret(NilSlice, ZeroItem,
             Errorf(<<"item", "with", "ID">> \o Itoa(id) \o <<"not", "found">>))
    ELSE Ret(NilSlice, ZeroItem, NilErr)

(***************************************************************************)
(* HTTP handlers.  A handler either answers at once or needs one storage   *)
(* call; Outcome says which: op = "none" carries the response, any other   *)
(* op names the call the handler is about to make.                         *)
(***************************************************************************)
Respond(resp) ==
    [op |-> "none", id |-> 0, item |-> ZeroItem, ret |-> NoRet, resp |-> resp]

RespondRet(ret, resp) ==
    [op |-> "none", id |-> 0, item |-> ZeroItem, ret |-> ret, resp |-> resp]

Call(op, id, item) ==
    [op |-> op, id |-> id, item |-> item, ret |-> NoRet, resp |-> NoResp]

InternalServerError ==
    HttpError(<<"Internal", "Server", "Error">>, StatusInternalServerError)

MethodNotAllowed ==
    HttpError(<<"Method", "Not", "Allowed">>, StatusMethodNotAllowed)

\* faulty variant: the error text is written to the client
getItemsHandlerLeak(ret) ==
    IF ret.err.kind # "nil" THEN HttpError(ret.err.text, StatusInternalServerError)
    ELSE LET items == IF ret.items.isNil THEN EmptySlice ELSE ret.items
         IN  [status |-> StatusOK, text |-> <<>>, json |-> EncodeSlice(items)]

\* the part of getItemsHandler after getItems returned
getItemsHandler(ret) ==
    IF ret.err.kind # "nil" THEN InternalServerError
    ELSE LET items == IF ret.items.isNil THEN EmptySlice ELSE ret.items
         IN  [status |-> StatusOK, text |-> <<>>, json |-> EncodeSlice(items)]

\* the switch of addItemHandler on the error of dec.Decode
DecodeErrorResponse(e) ==
    CASE e.kind = "SyntaxError" ->
           HttpError(<<"Request", "body", "contains", "badly-formed", "JSON",
                       "(at", "character">> \o Itoa(e.offset) \o <<")">>,
                     StatusBadRequest)
      [] e.kind = "ErrUnexpectedEOF" ->
           HttpError(<<"Request", "body", "contains", "badly-formed", "JSON">>,
                     StatusBadRequest)
      [] e.kind = "UnmarshalTypeError" ->
           HttpError(<<"Request", "body", "contains", "an", "invalid", "value",
                       "for", "the", e.field, "field">>, StatusBadRequest)
      [] e.kind = "unknown field" ->
           HttpError(<<"Request", "body", "contains", "unknown", "field", e.field>>,
                     StatusBadRequest)
      [] e.kind = "EOF" ->
           HttpError(<<"Request", "body", "must", "not", "be", "empty">>,
                     StatusBadRequest)
      [] e.kind = "MaxBytesError" ->
           HttpError(<<"Request", "body", "must", "not", "be", "larger", "than", "1MB">>,
                     StatusRequestEntityTooLarge)
      [] OTHER -> InternalServerError

\* faulty variant: a create that succeeded is answered 200
addItemRespondOK(ret) ==
    IF ret.err.kind # "nil"
    THEN IF Contains(ret.err.text, <<"cannot", "be", "empty">>)
         THEN HttpError(<<"Bad", "Request:">> \o ret.err.text, StatusBadRequest)
         ELSE InternalServerError
    ELSE [status |-> StatusOK, text |-> <<>>, json |-> EncodeItem(ret.item)]

\* the part of addItemHandler after addItem returned
addItemRespond(ret) ==
    IF ret.err.kind # "nil"
    THEN IF Contains(ret.err.text, <<"cannot", "be", "empty">>)
         THEN HttpError(<<"Bad", "Request:">> \o ret.err.text, StatusBadRequest)
         ELSE InternalServerError
    ELSE [status |-> StatusCreated, text |-> <<>>, json |-> EncodeItem(ret.item)]

\* addItemHandler up to the storage call of addItem
addItemHandler(r) ==
    LET d == Decode(r.body)
    IN  IF d.err.kind # "nil" THEN Respond(DecodeErrorResponse(d.err))
        ELSE IF addItemInvalid(d.item)
        THEN LET ret == Ret(NilSlice, ZeroItem, ErrCannotBeEmpty)
             IN  RespondRet(ret, addItemRespond(ret))
        ELSE Call("insert", 0, d.item)

\* the part of deleteItemHandler after deleteItem returned
deleteItemHandler(ret) ==
    IF ret.err.kind # "nil"
    THEN IF Contains(ret.err.text, <<"not", "found">>)
         THEN HttpError(<<"Not", "Found">>, StatusNotFound)
         ELSE InternalServerError
    ELSE [status |-> StatusNoContent, text |-> <<>>, json |-> NoJSON]

itemsHandler(r) ==
    CASE r.method = "GET" -> Call("query", 0, ZeroItem)
      [] r.method = "POST" -> addItemHandler(r)
      [] OTHER -> Respond(MethodNotAllowed)

\* faulty variant: id < 0
InvalidIDNegativeOnly(a) == ~a.ok \/ a.val < 0

\* err != nil || id <= 0
InvalidID(a) == ~a.ok \/ a.val <= 0

\* faulty variant: the method is checked before the path and the id
itemDetailHandlerMethodFirst(r) ==
    LET pathParts == SplitSlash(TrimSuffixSlash(r.path))
        n == Len(pathParts)
    IN  IF r.method # "DELETE" THEN Respond(MethodNotAllowed)
        ELSE IF n < 3 \/ pathParts[n] = <<>>
                \/ pathParts[n - 1] # <<"i", "t", "e", "m", "s">>
        THEN Respond(HttpError(<<"Bad", "Request:", "Invalid", "URL", "format", "or",
                                 "missing", "item", "ID">>, StatusBadRequest))
        ELSE LET a == Atoi(pathParts[n])
             IN  IF InvalidID(a)
                 THEN Respond(HttpError(<<"Bad", "Request:", "Invalid", "item", "ID",
                                          "format">>, StatusBadRequest))
                 ELSE Call("delete", a.val, ZeroItem)

\* the handler of /items/: the path and the id are checked, then the method
itemDetailHandler(r) ==
    LET pathParts == SplitSlash(TrimSuffixSlash(r.path))
        n == Len(pathParts)
    IN  IF n < 3 \/ pathParts[n] = <<>> \/ pathParts[n - 1] # <<"i", "t", "e", "m", "s">>
        THEN Respond(HttpError(<<"Bad", "Request:", "Invalid", "URL", "format", "or",
                                 "missing", "item", "ID">>, StatusBadRequest))
        ELSE LET a == Atoi(pathParts[n])
             IN  IF InvalidID(a)
                 THEN Respond(HttpError(<<"Bad", "Request:", "Invalid", "item", "ID",
                                          "format">>, StatusBadRequest))
                 ELSE CASE r.method = "DELETE" -> Call("delete", a.val, ZeroItem)
                        [] OTHER -> Respond(MethodNotAllowed)

\* faulty variant: the result of the ping is ignored
healthzHandlerAlwaysOK(err) == [status |-> StatusOK, text |-> <<"OK">>, json |-> NoJSON]

\* the /healthz handler after dbpool.Ping returned
healthzHandler(err) ==
    IF err.kind # "nil"
    THEN HttpError(<<"Database", "connection", "failed">>, StatusServiceUnavailable)
    ELSE [status |-> StatusOK, text |-> <<"OK">>, json |-> NoJSON]

PathItems == <<"/", "i", "t", "e", "m", "s">>
PathHealthz == <<"/", "h", "e", "a", "l", "t", "h", "z">>

HasPrefix(s, p) == Len(s) >= Len(p) /\ SubSeq(s, 1, Len(p)) = p

\* the ServeMux of main: "/items" and "/healthz" match one path, "/items/"
\* matches every path under it, any other path is answered 404 by the mux
Route(path) ==
    IF path = PathItems THEN "items"
    ELSE IF HasPrefix(path, PathItems \o <<"/">>) THEN "itemDetail"
    ELSE IF path = PathHealthz THEN "healthz"
    ELSE "notfound"

Serve(r) ==
    CASE Route(r.path) = "items" -> itemsHandler(r)
      [] Route(r.path) = "itemDetail" -> itemDetailHandler(r)
      [] Route(r.path) = "healthz" -> Call("ping", 0, ZeroItem)
      [] OTHER -> Respond(HttpError(<<"404", "page", "not", "found">>, StatusNotFound))

(***************************************************************************)
(* Requests.                                                               *)
(***************************************************************************)
Body(size, first, at, blank, top, fields) ==
    [size |-> size, first |-> first, at |-> at, blank |-> blank, top |-> top,
     fields |-> fields]

Member(key, val) == [key |-> key, val |-> val]

\* a body holding one JSON object of 30 bytes and nothing else
ObjectBody(fields) == Body(30, "value", 30, FALSE, "object", fields)

\* the same object followed by bytes that take the body past the cap
PaddedObjectBody(fields) ==
    Body(MaxBodyBytes + 1, "value", 30, FALSE, "object", fields)

\* an object that is itself longer than the cap
LongObjectBody(fields) ==
    Body(MaxBodyBytes + 1, "value", MaxBodyBytes + 1, FALSE, "object", fields)

EmptyBody == Body(0, "none", 0, TRUE, "object", <<>>)

NameQty(name, quantity) ==
    <<Member("name", JStr(name)), Member("quantity", JStr(quantity))>>

Extra == Member("extra", JStr(<<"x">>))

Request(method, path, body) == [method |-> method, path |-> path, body |-> body]

IdPath(seg) == PathItems \o <<"/">> \o seg

\* requests of the concurrent specification
CoreRequests ==
    { Request("GET", PathItems, EmptyBody),
      Request("POST", PathItems, ObjectBody(NameQty(<<"a">>, <<"1">>))) }
    \cup { Request("DELETE", IdPath(Itoa(i)), EmptyBody) : i \in 1..SeqMax }

\* names and quantities a client submits
ValidNames == { <<"a">>, <<" ", "a">> }
BlankNames == { <<>>, <<" ">>, <<" ", "\t">> }

\* bodies of POST requests: within the cap ...
SmallBodies ==
    { ObjectBody(NameQty(n, <<"1">>)) : n \in ValidNames \cup BlankNames }
    \cup { ObjectBody(NameQty(<<"a">>, q)) : q \in BlankNames }
    \cup { ObjectBody(f) : f \in
             { <<Member("name", JStr(<<"a">>))>>,
               NameQty(<<"a">>, <<"1">>) \o <<Extra>>,
               <<Extra>> \o NameQty(<<" ">>, <<"1">>),
               <<Member("name", JNum(5)), Member("quantity", JStr(<<"1">>)), Extra>>,
               <<Extra, Member("created_at", JStr(<<"b", "a", "d">>))>>,
               <<Member("created_at", JNum(5))>> \o NameQty(<<"a">>, <<"1">>),
               <<Member("name", JStr(<<"a">>)), Member("quantity", JNum(1))>>,
               <<Member("id", JStr(<<"7">>))>> \o NameQty(<<"a">>, <<"1">>),
               <<Member("id", JNum(7)), Member("created_at", JStr(<<"T", "5">>))>>
                 \o NameQty(<<"a">>, <<"1">>),
               <<Member("id", JNull), Member("name", JNull)>>
                 \o NameQty(<<"a">>, <<"1">>) } }
    \cup { EmptyBody,
           Body(3, "none", 0, TRUE, "object", <<>>),
           Body(10, "none", 0, FALSE, "object", <<>>),
           Body(30, "syntax", 5, FALSE, "object", <<>>),
           Body(4, "value", 4, FALSE, "null", <<>>),
           Body(2, "value", 2, FALSE, "other", <<>>),
           Body(MaxBodyBytes, "value", MaxBodyBytes, FALSE, "object",
                NameQty(<<"a">>, <<"1">>)) }

\* ... and past it
LargeBodies ==
    { PaddedObjectBody(NameQty(<<"a">>, <<"1">>)),
      PaddedObjectBody(NameQty(<<" ">>, <<"1">>)),
      PaddedObjectBody(NameQty(<<"a">>, <<"1">>) \o <<Extra>>),
      LongObjectBody(NameQty(<<"a">>, <<"1">>)),
      LongObjectBody(NameQty(<<"a">>, <<"1">>) \o <<Extra>>),
      Body(MaxBodyBytes + 1, "syntax", 5, FALSE, "object", <<>>),
      Body(MaxBodyBytes + 1, "syntax", MaxBodyBytes + 1, FALSE, "object", <<>>),
      Body(MaxBodyBytes + 1, "none", 0, FALSE, "object", <<>>),
      Body(MaxBodyBytes + 1, "none", 0, TRUE, "object", <<>>) }

Methods == {"GET", "POST", "DELETE", "PUT"}

\* trailing segments that are no positive integer
BadSegments == { <<>>, <<"0">>, <<"a">>, <<"-", "1">>, <<"1", "a">> }

Paths ==
    { PathItems, PathHealthz, PathHealthz \o <<"/">>, <<"/", "i", "t", "e", "m">> }
    \cup { IdPath(Itoa(i)) : i \in 1..SeqMax }
    \cup { IdPath(seg) : seg \in BadSegments }
    \cup { IdPath(seg) : seg \in { <<"+", "1">>, <<"1", "/">>, <<"a", "/">>,
                                   <<"a", "/", "1">>, <<"1", "/", "a">>,
                                   <<"i", "t", "e", "m", "s", "/", "1">> } }

\* requests of the sequential specification: every method on every path, a
\* body on some, and every body on the collection
HttpRequests ==
    { Request(m, p, EmptyBody) : m \in Methods, p \in Paths }
    \cup { Request("PUT", p, ObjectBody(NameQty(<<"a">>, <<"1">>))) :
             p \in {PathItems, PathHealthz, IdPath(<<"1">>), IdPath(<<"a">>)} }
    \cup { Request("POST", PathItems, b) : b \in SmallBodies \cup LargeBodies }

\* what the handlers do with each request up to the storage call
Outcomes == [rq \in CoreRequests \cup HttpRequests |-> Serve(rq)]

(***************************************************************************)
(* State: the storage (table, sequence, clock), one record per worker      *)
(* goroutine of the HTTP server, and the history the properties refer to.  *)
(*                                                                         *)
(* A worker's record: pc ("idle", "call": about to make its storage call,  *)
(* "done": answered), the request, the call it makes (op, id, item), the   *)
(* number of storage calls made for the request, what the storage answered *)
(* (db), what the repository function returned (ret), the response (resp), *)
(* and seq0, the value of the sequence when the request arrived.           *)
(***************************************************************************)
VARIABLES
    table,    \* rows of the items table
    seq,      \* last value handed out by items_id_seq
    clock,    \* NOW() of the storage when it last executed an insert
    srv,      \* worker -> record
    created,  \* history: [id, name, quantity] of each successful create, in order
    deleted,  \* history: ids whose delete succeeded
    pool      \* the connection pool and the requests that use it

vars == <<table, seq, clock, srv, created, deleted, pool>>

Workers == {1, 2}

DbAnswer(err, n) == [err |-> err, n |-> n]

Idle ==
    [pc |-> "idle", req |-> Request("", <<>>, EmptyBody), op |-> "none", id |-> 0,
     item |-> ZeroItem, calls |-> 0, seq0 |-> 0, db |-> DbAnswer(NilErr, 0),
     ret |-> NoRet, resp |-> NoResp]

\* a row written by another client of the database: its created_at is NULL,
\* which the column allows
LegacyRow == Row(1, <<"a">>, <<"1">>, <<>>)

\* pool_max_conns of the connection string
PoolMaxConns == 10

\* requests the server has in flight at most: one more than the pool has
\* connections
MaxInFlight == 11

\* The pool, seen from one request (me) among the others.  held: connections
\* in use; wait, call, done: how many of the other requests wait for a
\* connection, are in their storage call, have their response; me: where the
\* request is ("idle": not yet arrived); responses: the responses it was given
NewPool ==
    [held |-> 0, wait |-> 0, call |-> 0, done |-> 0, me |-> "idle", responses |-> 0]

InitServer ==
    /\ clock = 1
    /\ srv = [w \in Workers |-> Idle]
    /\ created = <<>>
    /\ deleted = {}
    /\ pool = NewPool

\* the items table is new
Init ==
    /\ table = {}
    /\ seq = 0
    /\ InitServer

\* the items table is new, or was there already
InitHttp ==
    /\ \/ table = {} /\ seq = 0
       \/ table = {LegacyRow} /\ seq = 1
    /\ InitServer

\* faulty variant: a call that failed is made once more
AnsweredRetry(w, db, ret, resp) ==
    [srv EXCEPT ![w].pc = IF db.err.kind # "nil" /\ srv[w].calls = 0
                          THEN "call" ELSE "done",
                ![w].calls = @ + 1, ![w].db = db,
                ![w].ret = ret, ![w].resp = resp]

\* the storage call of worker w has returned and the handler has answered
Answered(w, db, ret, resp) ==
    [srv EXCEPT ![w].pc = "done", ![w].calls = @ + 1, ![w].db = db,
                ![w].ret = ret, ![w].resp = resp]

\* the server takes a request: the handler runs up to its storage call, or to
\* its response when it makes none
Receive(w, rq) ==
    /\ srv[w].pc \in {"idle", "listen"}
    /\ LET o == Outcomes[rq]
       IN  srv' = [srv EXCEPT ![w] =
                     [pc |-> IF o.op = "none" THEN "done" ELSE "call", req |-> rq,
                      op |-> o.op, id |-> o.id, item |-> o.item,
                      calls |-> 0, seq0 |-> seq, db |-> DbAnswer(NilErr, 0),
                      ret |-> o.ret, resp |-> o.resp]]
    /\ UNCHANGED <<table, seq, clock, created, deleted, pool>>

Calling(w, op) == srv[w].pc = "call" /\ srv[w].op = op

\* the error rows.Err() reports when the cursor gave up on a failed rows.Scan
ScanArgError == DbError(<<"can't", "scan", "into", "dest[3]">>)

\* the row at which a cursor that gives up on a failed rows.Scan stops
FirstScanFailure(s) ==
    { k \in 1..Len(s) : ~Scan(s[k]).ok /\ \A j \in 1..(k - 1) : Scan(s[j]).ok }

\* what dbpool.Query and the cursor may answer: the query fails (with
\* pgx.ErrNoRows only when the table has no row), or the cursor delivers the
\* rows: all of them, or only the first k when the iteration fails.  What a
\* failed rows.Scan does to the cursor is the driver's choice: the cursor goes
\* on to the next row, or it is closed with the scan error and delivers no
\* further row
QueryAnswers(tbl, errs) ==
    UNION { { [qerr |-> NilErr, rows |-> SubSeq(s, 1, k), iterErr |-> ScanArgError] :
                k \in FirstScanFailure(s) } : s \in SelectStmt(tbl) }
    \cup
    { [qerr |-> e, rows |-> <<>>, iterErr |-> NilErr] :
        e \in (IF tbl = {} THEN {ErrNoRows} ELSE {}) \cup errs }
    \cup { [qerr |-> NilErr, rows |-> s, iterErr |-> NilErr] : s \in SelectStmt(tbl) }
    \cup UNION { { [qerr |-> NilErr, rows |-> SubSeq(s, 1, k), iterErr |-> e] :
                     k \in 0..Len(s), e \in errs } : s \in SelectStmt(tbl) }

\* GET /items: getItems, then the rest of getItemsHandler
Query(w, errs) ==
    /\ Calling(w, "query")
    /\ \E a \in QueryAnswers(table, errs) :
         LET ret == getItems(a.qerr, a.rows, a.iterErr)
             err == IF a.qerr.kind # "nil" THEN a.qerr ELSE a.iterErr
         IN  srv' = Answered(w, DbAnswer(err, Len(a.rows)), ret, getItemsHandler(ret))
    /\ UNCHANGED <<table, seq, clock, created, deleted, pool>>

\* POST /items: addItem, then the rest of addItemHandler.  The insert does not
\* reach the storage, or the storage executes it and it succeeds or fails; the
\* storage executes it at the instant of the insert before, or later
Insert(w, errs) ==
    /\ Calling(w, "insert")
    /\ \E now \in {clock, clock + 1} :
       LET newItem == srv[w].item
           args == addItemArgs(newItem)
           st == InsertStmt(table, seq, now, args.name, args.quantity)
       IN  \/ \E e \in errs :
                LET ret == addItem(newItem, e, 0, 0)
                IN  /\ srv' = Answered(w, DbAnswer(e, 0), ret, addItemRespond(ret))
                    /\ \/ UNCHANGED seq
                       \/ ~st.ok /\ seq' = st.seq
                    /\ UNCHANGED <<table, clock, created>>
           \/ /\ st.ok
              /\ LET ret == addItem(newItem, NilErr, st.row.id, st.row.created_at[1])
                 IN  /\ srv' = Answered(w, DbAnswer(NilErr, st.row.id), ret,
                                        addItemRespond(ret))
                     /\ created' = Append(created,
                                          [id |-> ret.item.ID, name |-> newItem.Name,
                                           quantity |-> newItem.Quantity])
              /\ table' = st.table
              /\ seq' = st.seq
              /\ clock' = now
    /\ UNCHANGED <<deleted, pool>>

\* DELETE /items/{id}: deleteItem, then the rest of deleteItemHandler.  The
\* delete does not reach the storage, or the storage executes it
Delete(w, errs) ==
    /\ Calling(w, "delete")
    /\ LET id == srv[w].id
           st == DeleteStmt(table, id)
       IN  \/ \E e \in errs :
                LET ret == deleteItem(id, e, 0)
                IN  /\ srv' = Answered(w, DbAnswer(e, 0), ret, deleteItemHandler(ret))
                    /\ UNCHANGED <<table, deleted>>
           \/ LET ret == deleteItem(id, NilErr, st.rowsAffected)
              IN  /\ srv' = Answered(w, DbAnswer(NilErr, st.rowsAffected), ret,
                                     deleteItemHandler(ret))
                  /\ table' = st.table
                  /\ deleted' = IF ret.err.kind = "nil" THEN deleted \cup {id}
                                ELSE deleted
    /\ UNCHANGED <<seq, clock, created, pool>>

\* /healthz: dbpool.Ping, then the rest of the handler
Ping(w, errs) ==
    /\ Calling(w, "ping")
    /\ \E e \in {NilErr} \cup errs :
         srv' = Answered(w, DbAnswer(e, 0), NoRet, healthzHandler(e))
    /\ UNCHANGED <<table, seq, clock, created, deleted, pool>>

\* the response is written and the handler returns: the worker is free again
Reply(w) ==
    /\ srv[w].pc = "done"
    /\ srv' = [srv EXCEPT ![w] = Idle]
    /\ UNCHANGED <<table, seq, clock, created, deleted, pool>>

\* a worker of a process that has just started, and of one that has exited
Listening == [Idle EXCEPT !.pc = "listen"]
Exited == [Idle EXCEPT !.pc = "exited"]

\* a worker of a process that log.Fatalf has ended with the message err
ExitedWith(err) == [Exited EXCEPT !.ret = Ret(NilSlice, ZeroItem, err)]

\* connectDB: the pool is created, then pinged; newErr and pingErr are what
\* pgxpool.NewWithConfig and pool.Ping return
connectDB(newErr, pingErr) ==
    IF newErr.kind # "nil"
    THEN Wrap(<<"unable", "to", "create", "connection", "pool:">>, newErr)
    ELSE IF pingErr.kind # "nil"
    THEN Wrap(<<"unable", "to", "ping", "database:">>, pingErr)
    ELSE NilErr

CouldNotConnect == <<"Could", "not", "connect", "to", "the", "database:">>
CouldNotCreateSchema == <<"Could", "not", "create", "database", "schema:">>

\* faulty variant: the error of createSchemaIfNotExists is logged, not fatal
mainSchemaNotFatal(db, newErr, pingErr, execErr) ==
    LET cerr == connectDB(newErr, pingErr)
        r == createSchemaIfNotExists(db, execErr)
    IN  IF cerr.kind # "nil"
        THEN [serve |-> FALSE, db |-> db, fatal |-> Wrap(CouldNotConnect, cerr)]
        ELSE [serve |-> TRUE, db |-> r.db, fatal |-> NilErr]

\* main up to ListenAndServe on the database db: connectDB, then
\* createSchemaIfNotExists, each fatal when it fails; execErr is what keeps
\* the CREATE TABLE from reaching the storage, if anything does
main(db, newErr, pingErr, execErr) ==
    LET cerr == connectDB(newErr, pingErr)
        r == createSchemaIfNotExists(db, execErr)
    IN  IF cerr.kind # "nil"
        THEN [serve |-> FALSE, db |-> db, fatal |-> Wrap(CouldNotConnect, cerr)]
        ELSE IF r.err.kind # "nil"
        THEN [serve |-> FALSE, db |-> r.db,
              fatal |-> Wrap(CouldNotCreateSchema, r.err)]
        ELSE [serve |-> TRUE, db |-> r.db, fatal |-> NilErr]

\* the process starts, the first time or again: main up to ListenAndServe.
\* Requests in flight in the old process are lost; log.Fatalf ends the new
\* process when it cannot connect or the schema cannot be ensured
Startup(newErr, pingErr, execErr) ==
    /\ LET m == main(Database(table, seq), newErr, pingErr, execErr)
       IN  /\ table' = m.db.table
           /\ seq' = m.db.seq
           /\ srv' = [w \in Workers |->
                       IF m.serve THEN Listening ELSE ExitedWith(m.fatal)]
    /\ UNCHANGED <<clock, created, deleted, pool>>

\* a start that connects, with err the outcome of ensuring the schema
Start(err) == Startup(NilErr, NilErr, err)

\* requests served concurrently
Next ==
    \/ \E w \in Workers : \E rq \in CoreRequests : Receive(w, rq)
    \/ \E w \in Workers : Query(w, {ConnRefused})
    \/ \E w \in Workers : Insert(w, {ConnRefused})
    \/ \E w \in Workers : Delete(w, {ConnRefused})
    \/ \E w \in Workers : Reply(w)

Spec == Init /\ [][Next]_vars

\* requests served one after the other, every request of the HTTP interface
NextHttp ==
    \/ \E rq \in HttpRequests : Receive(1, rq)
    \/ Query(1, StorageErrors)
    \/ Insert(1, StorageErrors)
    \/ Delete(1, StorageErrors)
    \/ Ping(1, StorageErrors)
    \/ Reply(1)

SpecHttp == InitHttp /\ [][NextHttp]_vars

\* the first start creates the table in a database that has none
InitRestart ==
    /\ LET r == createSchemaIfNotExists(NoTable, NilErr)
       IN  table = r.db.table /\ seq = r.db.seq
    /\ clock = 1
    /\ srv = [w \in Workers |-> Listening]
    /\ created = <<>>
    /\ deleted = {}
    /\ pool = NewPool

\* requests served one after the other by a process that restarts at any time
NextRestart ==
    \/ \E rq \in CoreRequests : Receive(1, rq)
    \/ Query(1, {ConnRefused})
    \/ Insert(1, {ConnRefused})
    \/ Delete(1, {ConnRefused})
    \/ Reply(1)
    \/ \E newErr, pingErr, execErr \in {NilErr, ConnRefused} :
         Startup(newErr, pingErr, execErr)

SpecRestart == InitRestart /\ [][NextRestart]_vars

\* the process has not started yet, on a database nobody has written to
InitBoot ==
    /\ table = {}
    /\ seq = 0
    /\ clock = 1
    /\ srv = [w \in Workers |-> Exited]
    /\ created = <<>>
    /\ deleted = {}
    /\ pool = NewPool

SpecBoot == InitBoot /\ [][NextRestart]_vars

(***************************************************************************)
(* The connection pool.  connectDB builds the pool with pool_max_conns=10  *)
(* and every storage call of a handler goes through it: the call acquires  *)
(* a connection, and the connection goes back when the call ends.  With    *)
(* pgxpool a call that finds all connections in use blocks in Acquire      *)
(* until one comes back, and waiting calls are served in arrival order.    *)
(* The requests are counted, not told apart, but for one of them (me).     *)
(***************************************************************************)
PoolOps == {"query", "insert", "delete", "ping"}

\* faulty variant: the pool opens a connection whenever one is asked for
CanAcquireAlways(held) == TRUE

\* the pool hands out a connection: one of its pool_max_conns is free
CanAcquire(held) == held < PoolMaxConns

\* faulty variant: getItems without its deferred rows.Close()
ConnsReleasedNoClose(op) == IF op = "query" THEN 0 ELSE 1

\* connections that go back to the pool when the call op ends: rows.Close()
\* for the query, Row.Scan for the insert, Exec and Ping by themselves
ConnsReleased(op) == 1

\* the other requests in flight
InFlight == pool.wait + pool.call + pool.done

\* requests waiting for a connection, and requests in their storage call
Waiting == pool.wait + (IF pool.me = "wait" THEN 1 ELSE 0)
InCall == pool.call + (IF pool.me = "call" THEN 1 ELSE 0)

Unpooled == <<table, seq, clock, srv, created, deleted>>

\* a request arrives and its handler reaches the storage call
PoolAccept ==
    /\ InFlight < MaxInFlight - 1
    /\ pool' = [pool EXCEPT !.wait = @ + 1]
    /\ UNCHANGED Unpooled

PoolAcceptMe ==
    /\ pool.me = "idle"
    /\ pool' = [pool EXCEPT !.me = "wait"]
    /\ UNCHANGED Unpooled

\* the call of a waiting request gets its connection
PoolAcquire ==
    /\ pool.wait > 0
    /\ CanAcquire(pool.held)
    /\ pool' = [pool EXCEPT !.wait = @ - 1, !.call = @ + 1, !.held = @ + 1]
    /\ UNCHANGED Unpooled

PoolAcquireMe ==
    /\ pool.me = "wait"
    /\ CanAcquire(pool.held)
    /\ pool' = [pool EXCEPT !.me = "call", !.held = @ + 1]
    /\ UNCHANGED Unpooled

\* the storage answers the call op, the call ends and the handler responds
PoolAnswer(op) ==
    /\ pool.call > 0
    /\ pool' = [pool EXCEPT !.call = @ - 1, !.done = @ + 1,
                            !.held = @ - ConnsReleased(op)]
    /\ UNCHANGED Unpooled

PoolAnswerMe(op) ==
    /\ pool.me = "call"
    /\ pool' = [pool EXCEPT !.me = "done", !.responses = @ + 1,
                            !.held = @ - ConnsReleased(op)]
    /\ UNCHANGED Unpooled

\* the response is written and the handler returns
PoolReply ==
    /\ pool.done > 0
    /\ pool' = [pool EXCEPT !.done = @ - 1]
    /\ UNCHANGED Unpooled

\* more requests in flight than the pool has connections
NextPool ==
    \/ PoolAccept
    \/ PoolAcceptMe
    \/ PoolAcquire
    \/ PoolAcquireMe
    \/ \E op \in PoolOps : PoolAnswer(op)
    \/ \E op \in PoolOps : PoolAnswerMe(op)
    \/ PoolReply

SpecPool == Init /\ [][NextPool]_vars

\* the storage answers every call, every handler runs on, and the pool
\* serves waiting calls in arrival order: a call that waits while
\* connections keep coming back gets one
SpecPoolFair ==
    /\ SpecPool
    /\ WF_vars(\E op \in PoolOps : PoolAnswer(op))
    /\ WF_vars(\E op \in PoolOps : PoolAnswerMe(op))
    /\ SF_vars(PoolAcquireMe)

(***************************************************************************)
(* Properties.                                                             *)
(***************************************************************************)
\* the step in which worker w makes its storage call op and answers
Step(w, op) == Calling(w, op) /\ srv'[w].pc = "done"

IsCreate(w) ==
    srv[w].pc # "idle" /\ srv[w].req.method = "POST" /\ srv[w].req.path = PathItems

HasItem(elems, id, name, quantity) ==
    \E k \in 1..Len(elems) :
        elems[k].ID = id /\ elems[k].Name = name /\ elems[k].Quantity = quantity

IdsOf(elems) == { elems[k].ID : k \in 1..Len(elems) }

\* C1: a list that succeeds holds, for every create that succeeded before it
\* and whose item no delete removed, an Item with exactly the submitted name
\* and quantity and the positive id the create returned.
C1_CreateThenList ==
    [][\A w \in Workers :
         (Step(w, "query") /\ srv'[w].resp.status = StatusOK)
         => \A i \in 1..Len(created) :
              created[i].id \notin deleted
              => /\ created[i].id > 0
                 /\ HasItem(srv'[w].resp.json.elems, created[i].id,
                            created[i].name, created[i].quantity)]_vars

\* a list answered 200 that holds an item created with a leading blank in its name
C1_Witness ==
    \E w \in Workers :
        /\ srv[w].pc = "done" /\ srv[w].op = "query"
        /\ srv[w].resp.status = StatusOK
        /\ \E i \in 1..Len(created) :
             /\ created[i].name = <<" ", "a">>
             /\ HasItem(srv[w].resp.json.elems, created[i].id, <<" ", "a">>,
                        created[i].quantity)

\* C2: once a delete of an id has succeeded, no list whose query runs afterwards
\* holds an Item with that id, whatever creates, deletes and lists interleave.
C2_DeletedNeverListed ==
    [][\A w \in Workers :
         Step(w, "query")
         => IdsOf(srv'[w].resp.json.elems) \cap deleted = {}]_vars

\* a list that holds item 2 and not item 1, which was created before item 2
\* and deleted before the list ran
C2_Witness ==
    \E w \in Workers :
        /\ srv[w].pc = "done" /\ srv[w].op = "query"
        /\ srv[w].resp.status = StatusOK
        /\ 1 \in deleted
        /\ Len(created) = 2
        /\ IdsOf(srv[w].resp.json.elems) = {2}

\* C3: a delete of a positive id that no row has, executed by the storage,
\* fails with the not-found error, is answered 404 and leaves the table as it was.
C3_DeleteAbsent ==
    [][\A w \in Workers :
         (/\ Step(w, "delete")
          /\ srv'[w].db.err.kind = "nil"
          /\ ~\E r \in table : r.id = srv[w].id)
         => /\ srv[w].id > 0
            /\ srv'[w].db.n = 0
            /\ srv'[w].ret.err =
                 Errorf(<<"item", "with", "ID">> \o Itoa(srv[w].id) \o <<"not", "found">>)
            /\ srv'[w].resp.status = StatusNotFound
            /\ table' = table]_vars

\* a delete the storage executed on no row, answered 404, beside a stored row
C3_Witness ==
    \E w \in Workers :
        /\ srv[w].pc = "done" /\ srv[w].op = "delete"
        /\ srv[w].db = DbAnswer(NilErr, 0)
        /\ srv[w].resp.status = StatusNotFound
        /\ table # {}

\* C4: the ids of the successful creates, in the order the storage handed them
\* out, are strictly increasing, so no two creates succeed with the same id;
\* two creates answered 201 carry different ids, each the one the storage assigned.
C4_DistinctIncreasingIds ==
    /\ \A i, j \in 1..Len(created) : i < j => created[i].id < created[j].id
    /\ \A w \in Workers :
         (srv[w].pc = "done" /\ srv[w].op = "insert"
          /\ srv[w].resp.status = StatusCreated)
         => /\ srv[w].resp.json.elems[1].ID = srv[w].db.n
            /\ \A v \in Workers \ {w} :
                 (srv[v].pc = "done" /\ srv[v].op = "insert"
                  /\ srv[v].resp.status = StatusCreated)
                 => srv[v].resp.json.elems[1].ID # srv[w].resp.json.elems[1].ID

\* two creates that both arrived before any id was handed out, both answered 201
C4_Witness ==
    /\ \A w \in Workers :
         /\ srv[w].pc = "done" /\ srv[w].op = "insert"
         /\ srv[w].seq0 = 0
         /\ srv[w].resp.status = StatusCreated
    /\ Len(created) = 2

\* bodies that decode to an Item whose name or quantity is blank
BlankCreateBodies ==
    { ObjectBody(NameQty(n, <<"1">>)) : n \in BlankNames }
    \cup { ObjectBody(NameQty(<<"a">>, q)) : q \in BlankNames }
    \cup { ObjectBody(<<Member("name", JStr(<<"a">>))>>),
           PaddedObjectBody(NameQty(<<" ">>, <<"1">>)) }

\* C5: a create whose name or quantity is empty or only white space fails with
\* the validation error, makes no storage call and is answered 400 with the
\* validation message.
C5_BlankRejected ==
    \A w \in Workers :
        (IsCreate(w) /\ srv[w].req.body \in BlankCreateBodies)
        => /\ srv[w].pc = "done"
           /\ srv[w].calls = 0
           /\ srv[w].ret.err = ErrCannotBeEmpty
           /\ srv[w].resp.status = StatusBadRequest
           /\ Contains(srv[w].resp.text, <<"cannot", "be", "empty">>)

\* a create with the name " " answered 400
C5_Witness ==
    \E w \in Workers :
        /\ IsCreate(w) /\ srv[w].pc = "done"
        /\ srv[w].req.body = ObjectBody(NameQty(<<" ">>, <<"1">>))
        /\ srv[w].resp.status = StatusBadRequest

\* C6: a GET /items answered 200 carries a JSON array, never null: getItems
\* returned a non-nil sequence, empty when no row was stored or scanned.
C6_ListIsArray ==
    \A w \in Workers :
        (srv[w].pc = "done" /\ srv[w].op = "query" /\ srv[w].resp.status = StatusOK)
        => /\ srv[w].ret.err.kind = "nil"
           /\ ~srv[w].ret.items.isNil
           /\ srv[w].resp.json = [t |-> "array", elems |-> srv[w].ret.items.elems]

\* a list over a table whose only row cannot be scanned, answered 200 with []
C6_Witness ==
    \E w \in Workers :
        /\ srv[w].pc = "done" /\ srv[w].op = "query"
        /\ table = {LegacyRow}
        /\ srv[w].db = DbAnswer(NilErr, 1)
        /\ srv[w].resp = [status |-> StatusOK, text |-> <<>>,
                          json |-> [t |-> "array", elems |-> <<>>]]

HasUnknownField(b) == \E i \in 1..Len(b.fields) : b.fields[i].key \notin ItemKeys

FirstUnknown(b) ==
    CHOOSE i \in 1..Len(b.fields) :
        /\ b.fields[i].key \notin ItemKeys
        /\ \A j \in 1..(i - 1) : b.fields[j].key \in ItemKeys

\* a member whose value has the wrong JSON type for its field
WrongType(m) ==
    \/ m.key = "id" /\ m.val.t = "str"
    \/ m.key \in {"name", "quantity"} /\ m.val.t = "num"

\* a created_at member that is no RFC 3339 string
BadTime(m) ==
    /\ m.key = "created_at"
    /\ m.val.t # "null"
    /\ ~(m.val.t = "str" /\ ParseTime(m.val.s).ok)

\* the JSON object is complete within the cap
CompleteObject(b) == b.first = "value" /\ b.at <= MaxBodyBytes /\ b.top = "object"

\* the unknown field is the first decoding failure of the body
UnknownFieldFirst(b) ==
    /\ CompleteObject(b)
    /\ ~\E i \in 1..Len(b.fields) : BadTime(b.fields[i])
    /\ ~\E j \in 1..(FirstUnknown(b) - 1) : WrongType(b.fields[j])

\* C7 as stated: every POST /items body with an unknown field is answered 400
\* with a message mentioning an unknown field, and no storage call is made.
C7_Original ==
    \A w \in Workers :
        (IsCreate(w) /\ srv[w].pc = "done" /\ HasUnknownField(srv[w].req.body))
        => /\ srv[w].calls = 0
           /\ srv[w].resp.status = StatusBadRequest
           /\ Contains(srv[w].resp.text, <<"unknown", "field">>)

\* C7 amended: a POST /items body with an unknown field is rejected without a
\* storage call.  The answer is 400 mentioning the unknown field when the
\* object is complete within the cap, no member before the unknown one has a
\* wrong type and no created_at member fails to parse; otherwise the earlier
\* failure decides: 413 for an object longer than the cap, 500 for a
\* created_at that does not parse, 400 naming the mistyped member.
C7_UnknownFieldRejected ==
    \A w \in Workers :
        (IsCreate(w) /\ HasUnknownField(srv[w].req.body))
        => LET b == srv[w].req.body
               r == srv[w].resp
           IN  /\ srv[w].pc = "done"
               /\ srv[w].calls = 0
               /\ UnknownFieldFirst(b)
                    => /\ r.status = StatusBadRequest
                       /\ Contains(r.text, <<"unknown", "field">>)
               /\ (b.first = "value" /\ b.at > MaxBodyBytes)
                    => r.status = StatusRequestEntityTooLarge
               /\ (CompleteObject(b) /\ \E i \in 1..Len(b.fields) : BadTime(b.fields[i]))
                    => r.status = StatusInternalServerError
               /\ (/\ CompleteObject(b)
                   /\ ~\E i \in 1..Len(b.fields) : BadTime(b.fields[i])
                   /\ ~UnknownFieldFirst(b))
                    => /\ r.status = StatusBadRequest
                       /\ Contains(r.text, <<"invalid", "value">>)

\* the body {"name":"a","quantity":"1","extra":"x"} answered 400 unknown field
C7_Witness ==
    \E w \in Workers :
        /\ IsCreate(w) /\ srv[w].pc = "done"
        /\ srv[w].req.body = ObjectBody(NameQty(<<"a">>, <<"1">>) \o <<Extra>>)
        /\ srv[w].resp.status = StatusBadRequest
        /\ Contains(srv[w].resp.text, <<"unknown", "field", "extra">>)

\* C8 as stated: every POST /items whose body is longer than 1 MiB is answered
\* 413 and makes no storage call, whatever the body holds.
C8_OversizeRejected ==
    \A w \in Workers :
        (IsCreate(w) /\ srv[w].pc = "done" /\ srv[w].req.body.size > MaxBodyBytes)
        => /\ srv[w].calls = 0
           /\ srv[w].resp.status = StatusRequestEntityTooLarge

\* paths under /items/ whose trailing segment is no positive integer, or absent
BadIdPaths ==
    { IdPath(seg) : seg \in BadSegments }
    \cup { IdPath(<<"a", "/">>), IdPath(<<"1", "/", "a">>) }

\* C9 as stated: a DELETE whose trailing segment is not numeric, is zero or
\* negative, or whose path has no id segment after items, is answered 400 and
\* makes no storage call.
C9_Original ==
    \A w \in Workers :
        (srv[w].pc = "done" /\ srv[w].req.method = "DELETE"
         /\ srv[w].req.path \in BadIdPaths \cup {PathItems})
        => /\ srv[w].calls = 0
           /\ srv[w].resp.status = StatusBadRequest

\* C9 amended: a DELETE under /items/ whose last segment, one trailing slash
\* removed, is missing, is no decimal integer, is zero or negative, or does not
\* follow the segment items, is answered 400; a DELETE on /items itself is
\* answered 405 by the collection handler; neither makes a storage call.
C9_BadIdRejected ==
    \A w \in Workers :
        (srv[w].pc # "idle" /\ srv[w].req.method = "DELETE")
        => /\ srv[w].req.path \in BadIdPaths
                => /\ srv[w].pc = "done"
                   /\ srv[w].op = "none"
                   /\ srv[w].calls = 0
                   /\ srv[w].resp.status = StatusBadRequest
           /\ srv[w].req.path = PathItems
                => /\ srv[w].pc = "done"
                   /\ srv[w].op = "none"
                   /\ srv[w].calls = 0
                   /\ srv[w].resp.status = StatusMethodNotAllowed

\* DELETE /items/0 answered 400
C9_Witness ==
    \E w \in Workers :
        /\ srv[w].pc = "done"
        /\ srv[w].req.method = "DELETE"
        /\ srv[w].req.path = IdPath(<<"0">>)
        /\ srv[w].resp.status = StatusBadRequest

\* the methods each route is documented to accept
AcceptedMethods(path) ==
    IF path = PathItems THEN {"GET", "POST"}
    ELSE IF HasPrefix(path, PathItems \o <<"/">>) THEN {"DELETE"}
    ELSE IF path = PathHealthz THEN {"GET"}
    ELSE Methods

\* C10 as stated: on the collection, on items/{id} and on healthz, a request
\* with a method the route does not accept is answered 405, whatever its path
\* and body.
C10_OtherMethods405 ==
    \A w \in Workers :
        (srv[w].pc = "done" /\ srv[w].req.method \notin AcceptedMethods(srv[w].req.path))
        => srv[w].resp.status = StatusMethodNotAllowed

\* C11 as stated: a POST /items whose body decodes is answered 201 with the
\* created Item exactly when addItem succeeds, 400 exactly when addItem fails
\* with its validation error, and 500 with the generic body for every other
\* failure, whatever the text of the storage error.
C11_CreateStatus ==
    \A w \in Workers :
        (IsCreate(w) /\ srv[w].pc = "done" /\ Decode(srv[w].req.body).err.kind = "nil")
        => LET ret == srv[w].ret
               resp == srv[w].resp
           IN  /\ resp.status = StatusCreated <=> ret.err.kind = "nil"
               /\ ret.err.kind = "nil" => resp.json = EncodeItem(ret.item)
               /\ resp.status = StatusBadRequest <=> ret.err = ErrCannotBeEmpty
               /\ (ret.err.kind # "nil" /\ ret.err # ErrCannotBeEmpty)
                    => resp = InternalServerError

\* C12 as stated: a DELETE with a valid positive id is answered 204 with an
\* empty body exactly when deleteItem succeeds, 404 exactly when it fails
\* because no row had the id, and 500 for every other failure, whatever the
\* text of the storage error.
C12_DeleteStatus ==
    \A w \in Workers :
        (srv[w].pc = "done" /\ srv[w].op = "delete")
        => LET ret == srv[w].ret
               resp == srv[w].resp
               noRow == srv[w].db = DbAnswer(NilErr, 0)
           IN  /\ resp.status = StatusNoContent <=> ret.err.kind = "nil"
               /\ ret.err.kind = "nil" => resp.text = <<>> /\ resp.json = NoJSON
               /\ resp.status = StatusNotFound <=> noRow
               /\ (ret.err.kind # "nil" /\ ~noRow) => resp = InternalServerError

\* C13: every 500 response of the list, create and delete handlers is the one
\* fixed generic response, whatever storage error the request hit, so any two
\* of them are identical; and a list that fails, by the query or by the
\* iteration, is always answered with it.
C13_Generic500 ==
    \A w \in Workers :
        srv[w].pc = "done"
        => /\ srv[w].resp.status = StatusInternalServerError
                => srv[w].resp = InternalServerError
           /\ (srv[w].op = "query" /\ srv[w].ret.err.kind # "nil")
                => srv[w].resp = InternalServerError

\* a list that hit the storage error "host not found", answered the generic 500
C13_Witness ==
    \E w \in Workers :
        /\ srv[w].pc = "done" /\ srv[w].op = "query"
        /\ srv[w].db.err = HostNotFound
        /\ srv[w].ret.err.kind # "nil"
        /\ srv[w].resp = InternalServerError

\* C14: the health handler answers 200 with the body OK exactly when the ping
\* succeeds and 503 otherwise, and leaves the items table as it was.
C14_Health ==
    [][\A w \in Workers :
         Step(w, "ping")
         => /\ srv'[w].resp.status = StatusOK <=> srv'[w].db.err.kind = "nil"
            /\ srv'[w].resp.status = StatusOK => srv'[w].resp.text = <<"OK">>
            /\ srv'[w].db.err.kind # "nil"
                 => srv'[w].resp.status = StatusServiceUnavailable
            /\ table' = table
            /\ seq' = seq]_vars

\* a failed ping answered 503 beside a stored row
C14_Witness ==
    \E w \in Workers :
        /\ srv[w].pc = "done" /\ srv[w].op = "ping"
        /\ srv[w].db.err = ConnRefused
        /\ srv[w].resp.status = StatusServiceUnavailable
        /\ table # {}

\* C15: in every reachable state every row of the items table has a name and
\* a quantity that are neither empty nor only white space.
C15_StoredNotBlank ==
    \A r \in table : TrimSpace(r.name) # <<>> /\ TrimSpace(r.quantity) # <<>>

\* a row stored with the name " a", after a create with the name " " was refused
C15_Witness ==
    /\ \E r \in table : r.name = <<" ", "a">>
    /\ \E w \in Workers :
         /\ IsCreate(w) /\ srv[w].pc = "done" /\ srv[w].calls = 0
         /\ srv[w].req.body = ObjectBody(NameQty(<<" ">>, <<"1">>))

RowIds(tbl) == { r.id : r \in tbl }

CreatedIds == { created[i].id : i \in 1..Len(created) }

\* C16: stored rows have positive, pairwise different ids, and a create that
\* succeeds is assigned a positive id that no stored row has and that no
\* earlier create was assigned, whether or not that item was deleted since.
C16_IdsNeverReused ==
    /\ [](\A r1, r2 \in table : r1.id > 0 /\ (r1.id = r2.id => r1 = r2))
    /\ [][\A w \in Workers :
            (Step(w, "insert") /\ srv'[w].resp.status = StatusCreated)
            => LET id == srv'[w].resp.json.elems[1].ID
               IN  /\ id > 0
                   /\ id \notin RowIds(table)
                   /\ id \notin CreatedIds
                   /\ id \notin deleted
                   /\ id \in RowIds(table')]_vars

\* a create assigned id 2 after item 1 was deleted, id 1 being free again
C16_Witness ==
    \E w \in Workers :
        /\ srv[w].pc = "done" /\ srv[w].op = "insert"
        /\ srv[w].resp.status = StatusCreated
        /\ srv[w].resp.json.elems[1].ID = 2
        /\ 1 \in deleted
        /\ RowIds(table) = {2}

\* C17: no step changes a field of a stored row, and a stored row leaves the
\* table only in the step of a delete of its own id that succeeds; creates and
\* deletes of other ids leave it untouched.
C17_ItemsImmutable ==
    [][\A r \in table :
         /\ \A r2 \in table' : r2.id = r.id => r2 = r
         /\ r \in table'
            \/ \E w \in Workers :
                 /\ Step(w, "delete")
                 /\ srv[w].id = r.id
                 /\ srv'[w].resp.status = StatusNoContent]_vars

\* item 2 deleted with 204 while item 1 is still stored
C17_Witness ==
    \E w \in Workers :
        /\ srv[w].pc = "done" /\ srv[w].op = "delete" /\ srv[w].id = 2
        /\ srv[w].resp.status = StatusNoContent
        /\ RowIds(table) = {1}
        /\ Len(created) = 2

\* C18: a start that finds the items table there already succeeds and leaves
\* every stored row, and the id sequence, as they were; ensuring the schema
\* twice gives the database that ensuring it once gives.
C18_SchemaIdempotent ==
    /\ [](\A db \in {NoTable, Database(table, seq)} :
            LET once == createSchemaIfNotExists(db, NilErr)
                twice == createSchemaIfNotExists(once.db, NilErr)
            IN  once.err = NilErr /\ twice.err = NilErr /\ twice.db = once.db)
    /\ [][Start(NilErr)
          => /\ table' = table
             /\ seq' = seq
             /\ \A w \in Workers : srv'[w] = Listening]_vars

\* a process that has just started again on a table that holds a row
C18_Witness ==
    /\ \A w \in Workers : srv[w] = Listening
    /\ table # {}
    /\ Len(created) >= 1

\* the Items of the rows of s that can be scanned, in the order of s
Scannable(s) == ScanLoop(s, EmptySlice).elems

\* C19 as stated: when the scan of one or more rows fails during a list whose
\* query and connection do not fail, the list still succeeds and returns
\* exactly the rows that could be scanned, in the order the storage gave them.
C19_BadRowsSkipped ==
    [][\A w \in Workers :
         (/\ Step(w, "query")
          /\ \E r \in table : ~Scan(r).ok
          /\ srv'[w].db.err \notin StorageErrors)
         => /\ srv'[w].ret.err.kind = "nil"
            /\ srv'[w].resp.status = StatusOK
            /\ \E s \in SelectStmt(table) :
                 srv'[w].ret.items.elems = Scannable(s)]_vars

\* C20: when the iteration fails after the cursor delivered one or more rows,
\* getItems fails with the iteration error and returns no items, not even the
\* rows read before the failure, and GET /items is answered 500.
C20_IterationErrorDiscards ==
    [][\A w \in Workers :
         (/\ Step(w, "query")
          /\ srv'[w].db.n >= 1
          /\ srv'[w].db.err.kind # "nil")
         => /\ srv'[w].ret.items = NilSlice
            /\ srv'[w].ret.err =
                 Wrap(<<"database", "iteration", "error:">>, srv'[w].db.err)
            /\ srv'[w].resp = InternalServerError]_vars

\* a list whose cursor delivered two rows that can be scanned and then failed
C20_Witness ==
    \E w \in Workers :
        /\ srv[w].pc = "done" /\ srv[w].op = "query"
        /\ srv[w].db = DbAnswer(ConnRefused, 2)
        /\ \A r \in table : Scan(r).ok
        /\ srv[w].ret.items.elems = <<>>
        /\ srv[w].resp.status = StatusInternalServerError

\* C21: the sequence a successful list returns is ordered by createdAt,
\* newest first: of two returned Items, the one with the later createdAt
\* comes earlier in the sequence.
C21_NewestFirst ==
    \A w \in Workers :
        (srv[w].pc = "done" /\ srv[w].op = "query" /\ srv[w].ret.err.kind = "nil")
        => LET elems == srv[w].ret.items.elems
           IN  \A i, j \in 1..Len(elems) :
                 elems[i].CreatedAt > elems[j].CreatedAt => i < j

\* a list of two items created at different instants, the later one first
C21_Witness ==
    \E w \in Workers :
        /\ srv[w].pc = "done" /\ srv[w].op = "query"
        /\ srv[w].resp.status = StatusOK
        /\ Len(srv[w].ret.items.elems) = 2
        /\ srv[w].ret.items.elems[1].ID = 2
        /\ srv[w].ret.items.elems[1].CreatedAt > srv[w].ret.items.elems[2].CreatedAt

\* C22: a request makes at most one storage call, and none again after the
\* call has returned: when the call fails, the request is answered with a
\* failure status and no second call is made.
C22_NoRetry ==
    \A w \in Workers :
        /\ srv[w].calls <= 1
        /\ srv[w].pc = "call" => srv[w].calls = 0
        /\ (srv[w].calls = 1 /\ srv[w].db.err \in StorageErrors)
             => /\ srv[w].pc = "done"
                /\ srv[w].resp.status >= StatusBadRequest

\* a delete whose storage call failed, answered 500 after that one call
C22_Witness ==
    \E w \in Workers :
        /\ srv[w].pc = "done" /\ srv[w].op = "delete"
        /\ srv[w].calls = 1
        /\ srv[w].db.err = ConnRefused
        /\ srv[w].resp.status = StatusInternalServerError

\* C23: the connections in use by concurrent requests never exceed the pool
\* bound of 10, each belongs to a storage call in progress, and while all are
\* in use a request that needs one goes on waiting: it is not failed and the
\* pool opens no further connection.
C23_PoolBound ==
    /\ [](pool.held <= PoolMaxConns /\ pool.held = InCall)
    /\ [][pool.held = PoolMaxConns =>
            /\ pool'.held <= PoolMaxConns
            /\ Waiting' >= Waiting
            /\ pool.me = "wait" => pool'.me = "wait"]_vars

\* all 10 connections are in use and the request waits for one
C23_Witness ==
    /\ pool.held = PoolMaxConns
    /\ pool.me = "wait"
    /\ InFlight = PoolMaxConns

\* C30: when the storage answers every call and scheduling is fair, a request
\* that waits for a connection gets its response, exactly one, also with
\* more requests in flight than the pool has connections: the connection of
\* every call goes back to the pool when the call ends.
C30_EveryRequestAnswered ==
    /\ [](pool.responses <= 1)
    /\ [](pool.me = "done" => pool.responses = 1)
    /\ (pool.me = "wait") ~> (pool.me = "done" /\ pool.responses = 1)

\* the request has its response after all connections were in use by others
C30_Witness ==
    /\ pool.me = "done"
    /\ pool.responses = 1
    /\ pool.call = PoolMaxConns - 1
    /\ pool.wait > 0

Serving(w) == srv[w].pc \in {"listen", "idle", "call", "done"}

\* the text of err begins with the words of prefix
Begins(err, prefix) ==
    /\ Len(err.text) >= Len(prefix)
    /\ SubSeq(err.text, 1, Len(prefix)) = prefix

\* C24: a process serves requests only after a start in which the connection,
\* the ping and the schema creation succeeded, in that order: when one of
\* them fails the start ends the process with the error of the first step
\* that failed, whatever the later steps would give, and the process takes
\* no request.
C24_ServeOnlyAfterStartup ==
    /\ [][\A newErr, pingErr, execErr \in {NilErr, ConnRefused} :
            Startup(newErr, pingErr, execErr)
            => LET ok == newErr = NilErr /\ pingErr = NilErr /\ execErr = NilErr
                   fatal == srv'[1].ret.err
               IN  /\ \A w \in Workers : Serving(w)' <=> ok
                   /\ \A w \in Workers : ~ok => srv'[w].pc = "exited"
                   /\ ok => fatal = NilErr
                   /\ newErr # NilErr
                        => Begins(fatal, CouldNotConnect \o
                                    <<"unable", "to", "create", "connection", "pool:">>)
                   /\ (newErr = NilErr /\ pingErr # NilErr)
                        => Begins(fatal, CouldNotConnect \o
                                    <<"unable", "to", "ping", "database:">>)
                   /\ (newErr = NilErr /\ pingErr = NilErr /\ execErr # NilErr)
                        => Begins(fatal, CouldNotCreateSchema)]_vars
    /\ [][\A w \in Workers :
            (srv[w].pc = "exited" /\ srv'[w] # srv[w])
            => /\ srv'[w].pc \in {"exited", "listen"}
               /\ srv'[w].req = Idle.req /\ srv'[w].op = "none"]_vars
    /\ [](\A w \in Workers : srv[w].pc = "exited" => srv[w].calls = 0)

\* the schema could not be ensured and the process has ended without serving
C24_Witness ==
    \A w \in Workers :
        /\ srv[w].pc = "exited"
        /\ Begins(srv[w].ret.err, CouldNotCreateSchema)

\* a member whose JSON value has another type than its field of Item
WrongFieldType(m) ==
    \/ WrongType(m)
    \/ m.key = "created_at" /\ m.val.t = "num"

\* why the body of a POST /items fails decoding, among the causes of C25
DecodeCauses(b) ==
    (IF b.first = "syntax" \/ (b.first = "none" /\ ~b.blank) THEN {"syntax"} ELSE {})
    \cup (IF b.first = "none" /\ b.blank THEN {"empty"} ELSE {})
    \cup (IF b.first = "value" /\ b.top = "other" THEN {"type"} ELSE {})
    \cup (IF b.first = "value" /\ b.top = "object"
             /\ \E k \in 1..Len(b.fields) : WrongFieldType(b.fields[k])
          THEN {"type"} ELSE {})
    \cup (IF b.first = "value" /\ b.top = "object" /\ HasUnknownField(b)
          THEN {"unknown"} ELSE {})

\* the words by which the message of a cause is told from the others
CausePhrase ==
    [c \in {"syntax", "type", "unknown", "empty"} |->
        CASE c = "syntax" -> <<"badly-formed", "JSON">>
          [] c = "type" -> <<"invalid", "value">>
          [] c = "unknown" -> <<"unknown", "field">>
          [] c = "empty" -> <<"must", "not", "be", "empty">>]

\* C25 as stated: a POST /items body within the cap that fails decoding for
\* one of the four causes (malformed syntax, wrong field type, unrecognized
\* field, empty body) is answered 400 with the message of that cause and of
\* no other, and no storage call is made.
C25_DecodeFailures400 ==
    \A w \in Workers :
        (/\ IsCreate(w) /\ srv[w].pc = "done"
         /\ srv[w].req.body.size <= MaxBodyBytes
         /\ Cardinality(DecodeCauses(srv[w].req.body)) = 1
         /\ ~\E k \in 1..Len(srv[w].req.body.fields) :
               /\ BadTime(srv[w].req.body.fields[k])
               /\ srv[w].req.body.fields[k].val.t = "str")
        => /\ srv[w].calls = 0
           /\ srv[w].resp.status = StatusBadRequest
           /\ \A c \in DOMAIN CausePhrase :
                Contains(srv[w].resp.text, CausePhrase[c])
                <=> c \in DecodeCauses(srv[w].req.body)

\* worker w is answered status for its delete of id, which the storage ran
DeleteAnswered(w, id, status) ==
    /\ srv[w].pc = "done" /\ srv[w].op = "delete" /\ srv[w].id = id
    /\ srv[w].db.err = NilErr
    /\ srv[w].resp.status = status

\* C26: of the DELETE requests for one existing id that are in progress
\* together and that the storage does not fail, exactly one is answered 204
\* and every other one 404: the first to reach the storage removes the row
\* and is answered 204, each later one finds no row and is answered 404.
C26_OneDeleteWins ==
    /\ [][\A w \in Workers : \A o \in Workers \ {w} :
            (/\ Step(w, "delete") /\ srv'[w].db.err = NilErr
             /\ srv[o].op = "delete" /\ srv[o].id = srv[w].id)
            => /\ (Calling(o, "delete") /\ srv[w].id \in RowIds(table))
                    => /\ srv'[w].resp.status = StatusNoContent
                       /\ srv[w].id \notin RowIds(table')
               /\ DeleteAnswered(o, srv[w].id, StatusNoContent)
                    => srv'[w].resp.status = StatusNotFound]_vars
    /\ [](\A id \in 1..SeqMax : \A w \in Workers : \A o \in Workers \ {w} :
            ~(DeleteAnswered(w, id, StatusNoContent)
              /\ DeleteAnswered(o, id, StatusNoContent)))

\* two deletes of item 1 in progress together: one answered 204, one 404
C26_Witness ==
    /\ DeleteAnswered(1, 1, StatusNoContent)
    /\ DeleteAnswered(2, 1, StatusNotFound)
    /\ srv[2].seq0 = 1 /\ srv[1].seq0 = 1

\* paths under /items/ whose trailing segment is a positive integer that
\* follows the segment items
ValidIdPaths ==
    { IdPath(Itoa(i)) : i \in 1..SeqMax }
    \cup { IdPath(<<"+", "1">>), IdPath(<<"1", "/">>),
           IdPath(<<"i", "t", "e", "m", "s", "/", "1">>) }

\* C27: under /items/ the path and the id are checked before the method: a
\* request whose id segment is missing, not numeric or not positive is
\* answered 400 whatever its method, a request is answered 405 only when its
\* id is a positive integer and its method is not DELETE, and neither makes a
\* storage call.
C27_PathBeforeMethod ==
    \A w \in Workers :
        (srv[w].pc # "idle" /\ Route(srv[w].req.path) = "itemDetail")
        => /\ srv[w].req.path \in BadIdPaths
                => /\ srv[w].pc = "done" /\ srv[w].op = "none" /\ srv[w].calls = 0
                   /\ srv[w].resp.status = StatusBadRequest
           /\ (srv[w].req.path \in ValidIdPaths /\ srv[w].req.method # "DELETE")
                => /\ srv[w].pc = "done" /\ srv[w].op = "none" /\ srv[w].calls = 0
                   /\ srv[w].resp.status = StatusMethodNotAllowed
           /\ (srv[w].pc = "done" /\ srv[w].resp.status = StatusMethodNotAllowed)
                => /\ srv[w].req.path \in ValidIdPaths
                   /\ srv[w].req.method # "DELETE"

\* a PUT on an id that is no number, answered 400 and not 405
C27_Witness ==
    \E w \in Workers :
        /\ srv[w].pc = "done"
        /\ srv[w].req.method = "PUT"
        /\ srv[w].req.path = IdPath(<<"a">>)
        /\ srv[w].resp.status = StatusBadRequest
        /\ srv[w].calls = 0

\* what dec.Decode makes of each body of the model
Decoded == [b \in SmallBodies \cup LargeBodies |-> Decode(b)]

\* the bodies of the model that decode
DecodableBodies ==
    { b \in SmallBodies \cup LargeBodies : Decoded[b].err.kind = "nil" }

\* C28: the id and created_at of a POST /items body have no influence: two
\* bodies that differ only in them bind the same parameters to the INSERT,
\* and the Item a create returns carries the id and the createdAt the storage
\* assigned to the new row, with the name and quantity of the body.
C28_ClientIdIgnored ==
    \A w \in Workers :
        (IsCreate(w) /\ srv[w].req.body \in DecodableBodies)
        => LET sent == Decoded[srv[w].req.body].item
               it == srv[w].ret.item
           IN  /\ \A b \in DecodableBodies :
                     (Decoded[b].item.Name = sent.Name
                      /\ Decoded[b].item.Quantity = sent.Quantity)
                     => /\ addItemArgs(Decoded[b].item) = addItemArgs(sent)
                        /\ Outcomes[Request("POST", PathItems, b)].op = srv[w].op
               /\ (srv[w].pc = "done" /\ srv[w].resp.status = StatusCreated)
                     => /\ it.ID = seq /\ it.ID > srv[w].seq0
                        /\ \E r \in table :
                              /\ r.id = it.ID
                              /\ r.created_at = <<it.CreatedAt>>
                              /\ r.name = sent.Name /\ r.quantity = sent.Quantity
                        /\ it.CreatedAt = clock
                        /\ it.Name = sent.Name /\ it.Quantity = sent.Quantity
                        /\ srv[w].resp.json = EncodeItem(it)

\* a create whose body gave id 7 and an instant of its own is answered with
\* the id and the instant of the storage
C28_Witness ==
    \E w \in Workers :
        /\ IsCreate(w) /\ srv[w].pc = "done"
        /\ srv[w].resp.status = StatusCreated
        /\ Decoded[srv[w].req.body].item.ID = 7
        /\ Decoded[srv[w].req.body].item.CreatedAt = 5
        /\ srv[w].ret.item.ID # 7
        /\ srv[w].ret.item.CreatedAt # 5

\* the step in which worker w gets its answer, with or without a storage call
AnswerStep(w) == srv[w].pc \in {"idle", "call"} /\ srv'[w].pc = "done"

====
